---- MODULE Spec2Model ----
(***************************************************************************)
(* Model of pgesmd_self_access: the SelfAccessApi token / fetch protocol   *)
(* (api.py) and the DST-correcting ESPI interval parser (helpers.py).      *)
(***************************************************************************)
EXTENDS Integers, Sequences, FiniteSets, TLC

(***************************************************************************)
(* Bounds of the model.                                                    *)
(***************************************************************************)
MaxLen == 3
MaxTime == 2
MaxCalls == 2
MaxFeed == 4

Starts == {0, 1800, 3600}
Durations == {1800, 3600}
Values == {-3, 2, 4}
Multipliers == {0, 1}

Tokens == {"token_a", "token_b"}
ExpiresIn == {3, 7}
TokenStatuses == {200, 400}
GetStatuses == {200, 403, 500}
Texts == {"xml_a", "xml_b"}
BulkStatuses == {202, 200, 500}
ServiceStatuses == {200, 202, 500}
ServiceTexts == {"<a><b>1</b></a>", "<a><b>0</b></a>", "<a/>", "<a"}
Dates ==
    {[year |-> 2019, month |-> 3, day |-> 10],
     [year |-> 2019, month |-> 3, day |-> 11],
     [year |-> 2019, month |-> 11, day |-> 3],
     [year |-> 2019, month |-> 11, day |-> 4],
     [year |-> 2019, month |-> 3, day |-> 9],
     [year |-> 2019, month |-> 7, day |-> 4]}
StartArgs == {0}
EndDateArgs == {<<>>, <<1>>}
DaysArgs == {1, 730}

None == "None"

\* A Python local that no assignment has bound yet.
Unbound == <<>>

(***************************************************************************)
(* State.  parse_espi_data: the document, the position of the iterator in  *)
(* it, the locals previous and mp, the readings yielded so far and where   *)
(* the generator stands.  SelfAccessApi: the clock, the two token fields,  *)
(* the method being run and its position, the _retried argument and the    *)
(* number of get_espi_data frames waiting below the running one, the GETs   *)
(* and the token requests of the call, the last need_token() evaluation,   *)
(* the value returned and the number of calls made so far.                 *)
(***************************************************************************)
VARIABLES xml, it, previous, mp, yielded, origin, parse

VARIABLES now, access_token, access_token_exp, op, pc, retried, frames,
          gets, posts, post, need, ret, calls

parseVars == <<xml, it, previous, mp, yielded, origin, parse>>

apiVars == <<now, access_token, access_token_exp, op, pc, retried, frames,
             gets, posts, post, need, ret, calls>>

\* PgeRegister: self.access_token, self.testing_completed, and the steps the
\* running call has taken, each with the answer it got and what it returned.
VARIABLES register_access_token, testing_completed, testing

registerVars == <<register_access_token, testing_completed, testing>>

vars == <<parseVars, apiVars, registerVars>>

(***************************************************************************)
(* helpers.py : parse_espi_data                                            *)
(***************************************************************************)
\* The elements of an ESPI document that parse_espi_data looks at, in
\* document order: powerOfTenMultiplier declarations and the IntervalReading
\* elements of the IntervalBlocks.
MultiplierElements == [tag : {"powerOfTenMultiplier"}, text : Multipliers]
ReadingElements ==
    [tag : {"IntervalReading"}, start : Starts, duration : Durations,
     value : Values]
Elements == MultiplierElements \cup ReadingElements
\* A document: at most one leading powerOfTenMultiplier (the ReadingType
\* entry of a feed), then up to MaxLen further elements.
DocumentHeads == {<<>>} \cup {<<d>> : d \in MultiplierElements}
DocumentBodies(n) == [1..n -> Elements]

IsReading(e) == e.tag = "IntervalReading"

\* The readings of a document, in document order.
RECURSIVE Readings(_)
Readings(doc) ==
    IF doc = <<>> THEN <<>>
    ELSE IF IsReading(Head(doc)) THEN <<Head(doc)>> \o Readings(Tail(doc))
    ELSE Readings(Tail(doc))

RECURSIVE Pow10(_)
Pow10(m) == IF m = 0 THEN 1 ELSE 10 * Pow10(m - 1)

\* Python round() of the quotient n / d (d > 0): nearest, ties to even.
Round(n, d) ==
    LET q == n \div d
        r == n % d
    IN  IF 2 * r < d THEN q
        ELSE IF 2 * r > d THEN q + 1
        ELSE IF q % 2 = 0 THEN q ELSE q + 1

\* Python int() of the quotient n / 2: truncation toward zero.
IntHalf(n) == IF n >= 0 THEN n \div 2 ELSE -((-n) \div 2)

\* int(round(value * pow(10, mp) * duration / 3600))
WattHours(value, m, duration) == Round(value * Pow10(m) * duration, 3600)

\* previous = (first_start - duration, 0, 0)
SeedAtFirstStart(first_start, duration) == <<first_start, 0, 0>>
Seed(first_start, duration) == <<first_start - duration, 0, 0>>

\* if start == previous[0]
ClocksBack(start, prev) == start = prev[1]

\* if not start == previous[0] + duration
ClocksForward(start, duration, prev) == ~(start = prev[1] + duration)

\* the reading synthesized when the clocks went forward
Interpolated(duration, watt_hours, prev) ==
    <<prev[1] + duration, duration, IntHalf(prev[3] + watt_hours)>>

\* Where a yielded reading comes from: the position in the document of the
\* IntervalReading being read when it was yielded, and whether it is the
\* interpolated reading of lines 113-116 or the reading itself (line 120).
Origin(position, synthesized) ==
    [position |-> position, synthesized |-> synthesized]

InitParse ==
    /\ \E head \in DocumentHeads, n \in 0..MaxLen :
        \E body \in DocumentBodies(n) : xml = head \o body
    /\ it = 1
    /\ previous = Unbound
    /\ mp = Unbound
    /\ yielded = <<>>
    /\ origin = <<>>
    /\ parse = "start"

\* Lines 84-91: find the first timePeriod and seed previous.
ParseSeed ==
    /\ parse = "start"
    /\ Readings(xml) # <<>>
    /\ previous' = Seed(Readings(xml)[1].start, Readings(xml)[1].duration)
    /\ parse' = "iter"
    /\ UNCHANGED <<xml, it, mp, yielded, origin>>
    /\ UNCHANGED <<apiVars, registerVars>>

\* Line 90 with no timePeriod in the document: first_start is unbound.
ParseSeedUnbound ==
    /\ parse = "start"
    /\ Readings(xml) = <<>>
    /\ parse' = "UnboundLocalError"
    /\ UNCHANGED <<xml, it, previous, mp, yielded, origin>>
    /\ UNCHANGED <<apiVars, registerVars>>

\* Lines 98-99.
ParseMultiplierFirstOnly ==
    /\ parse = "iter"
    /\ it <= Len(xml)
    /\ ~IsReading(xml[it])
    /\ mp' = IF mp = Unbound THEN <<xml[it].text>> ELSE mp
    /\ it' = it + 1
    /\ UNCHANGED <<xml, previous, yielded, origin, parse>>
    /\ UNCHANGED <<apiVars, registerVars>>
ParseMultiplier ==
    /\ parse = "iter"
    /\ it <= Len(xml)
    /\ ~IsReading(xml[it])
    /\ mp' = <<xml[it].text>>
    /\ it' = it + 1
    /\ UNCHANGED <<xml, previous, yielded, origin, parse>>
    /\ UNCHANGED <<apiVars, registerVars>>

\* Line 107 when no powerOfTenMultiplier came before the reading.
ParseMultiplierUnbound ==
    /\ parse = "iter"
    /\ it <= Len(xml)
    /\ IsReading(xml[it])
    /\ mp = Unbound
    /\ parse' = "UnboundLocalError"
    /\ UNCHANGED <<xml, it, previous, mp, yielded, origin>>
    /\ UNCHANGED <<apiVars, registerVars>>

\* Lines 104-110: a repeated start is skipped.
ParseClocksBack ==
    /\ parse = "iter"
    /\ it <= Len(xml)
    /\ IsReading(xml[it])
    /\ mp # Unbound
    /\ ClocksBack(xml[it].start, previous)
    /\ it' = it + 1
    /\ UNCHANGED <<xml, previous, mp, yielded, origin, parse>>
    /\ UNCHANGED <<apiVars, registerVars>>

\* Lines 112-117: the reading is replaced by an interpolated one.
ParseClocksForward ==
    /\ parse = "iter"
    /\ it <= Len(xml)
    /\ IsReading(xml[it])
    /\ mp # Unbound
    /\ ~ClocksBack(xml[it].start, previous)
    /\ ClocksForward(xml[it].start, xml[it].duration, previous)
    /\ LET watt_hours == WattHours(xml[it].value, mp[1], xml[it].duration)
           reading == Interpolated(xml[it].duration, watt_hours, previous)
       IN  /\ previous' = reading
           /\ yielded' = Append(yielded, reading)
           /\ origin' = Append(origin, Origin(it, TRUE))
    /\ it' = it + 1
    /\ UNCHANGED <<xml, mp, parse>>
    /\ UNCHANGED <<apiVars, registerVars>>

\* Lines 119-120.
ParseReading ==
    /\ parse = "iter"
    /\ it <= Len(xml)
    /\ IsReading(xml[it])
    /\ mp # Unbound
    /\ ~ClocksBack(xml[it].start, previous)
    /\ ~ClocksForward(xml[it].start, xml[it].duration, previous)
    /\ LET watt_hours == WattHours(xml[it].value, mp[1], xml[it].duration)
           reading == <<xml[it].start, xml[it].duration, watt_hours>>
       IN  /\ previous' = reading
           /\ yielded' = Append(yielded, reading)
           /\ origin' = Append(origin, Origin(it, FALSE))
    /\ it' = it + 1
    /\ UNCHANGED <<xml, mp, parse>>
    /\ UNCHANGED <<apiVars, registerVars>>

\* The iterator is exhausted: the generator returns.
ParseReturn ==
    /\ parse = "iter"
    /\ it > Len(xml)
    /\ parse' = "done"
    /\ UNCHANGED <<xml, it, previous, mp, yielded, origin>>
    /\ UNCHANGED <<apiVars, registerVars>>

NextParse ==
    \/ ParseSeed
    \/ ParseSeedUnbound
    \/ ParseMultiplier
    \/ ParseMultiplierUnbound
    \/ ParseClocksBack
    \/ ParseClocksForward
    \/ ParseReading
    \/ ParseReturn

(***************************************************************************)
(* api.py : SelfAccessApi                                                  *)
(***************************************************************************)
\* A value that is present (<<v>>) or absent (<<>>).
Optional(S) == {<<>>} \cup {<<v>> : v \in S}

\* What the token endpoint may answer: a status and a body that is either
\* not JSON at all or a JSON object with or without each of the two keys.
\* Status 0 stands for no answer at all: requests raises ConnectionError.
TokenResponses ==
    [status : TokenStatuses, json : {TRUE},
     client_access_token : Optional(Tokens), expires_in : Optional(ExpiresIn)]
    \cup
    [status : TokenStatuses \cup {0}, json : {FALSE},
     client_access_token : {<<>>}, expires_in : {<<>>}]

\* What a resource URI may answer (status 0: no answer, ConnectionError).
GetResponses ==
    [status_code : GetStatuses, text : Texts]
    \cup [status_code : {0}, text : {""}]

\* The exceptions that leave a call: json.loads on a body that is not JSON,
\* requests.post / requests.get without an answer, root[0] on an XML root
\* without children.
JSONDecodeError == "JSONDecodeError"
ConnectionError == "ConnectionError"
IndexError == "IndexError"
Exceptions == {JSONDecodeError, ConnectionError, IndexError}

\* Python truth value of what get_token returns.
Truthy(v) == v \notin {None, ""}

\* need_token, lines 91-95: time.time() > self.access_token_exp - 5
NeedTokenOffByOne(t, exp) == t >= exp - 5
need_token(t, exp) == t > exp - 5

\* get_token, lines 108-128: the token, the expiry and the returned value
\* after the token endpoint answered `response` at time t.
GetTokenNoClock(response, token, exp, t) ==
    IF response.status = 0
    THEN [access_token |-> token, access_token_exp |-> exp,
          returned |-> ConnectionError]
    ELSE IF response.status = 200
    THEN IF ~response.json
         THEN [access_token |-> token, access_token_exp |-> exp,
               returned |-> JSONDecodeError]
         ELSE IF response.client_access_token = <<>>
         THEN [access_token |-> token, access_token_exp |-> exp,
               returned |-> None]
         ELSE IF response.expires_in = <<>>
         THEN [access_token |-> response.client_access_token[1],
               access_token_exp |-> exp, returned |-> None]
         ELSE [access_token |-> response.client_access_token[1],
               access_token_exp |-> response.expires_in[1],
               returned |-> response.client_access_token[1]]
    ELSE [access_token |-> token, access_token_exp |-> exp, returned |-> None]
get_token(response, token, exp, t) ==
    IF response.status = 0
    THEN \* line 108 raises
         [access_token |-> token, access_token_exp |-> exp,
          returned |-> ConnectionError]
    ELSE IF response.status = 200
    THEN IF ~response.json
         THEN \* line 114 raises
              [access_token |-> token, access_token_exp |-> exp,
               returned |-> JSONDecodeError]
         ELSE IF response.client_access_token = <<>>
         THEN \* line 115 raises KeyError
              [access_token |-> token, access_token_exp |-> exp,
               returned |-> None]
         ELSE IF response.expires_in = <<>>
         THEN \* line 115 has assigned, line 116 raises KeyError
              [access_token |-> response.client_access_token[1],
               access_token_exp |-> exp, returned |-> None]
         ELSE [access_token |-> response.client_access_token[1],
               access_token_exp |-> t + response.expires_in[1],
               returned |-> response.client_access_token[1]]
    ELSE [access_token |-> token, access_token_exp |-> exp, returned |-> None]

\* get_espi_data, line 288: elif status_code == "403" and not _retried
RefreshOnEvery403(status_code, _retried) == status_code = 403
RefreshOnAnyError(status_code, _retried) == status_code # 200 /\ ~_retried
refresh_and_retry(status_code, _retried) == status_code = 403 /\ ~_retried

\* The record kept of a call of get_token.
PostRecord(response, t) ==
    [response |-> response, at |-> t, token_before |-> access_token,
     exp_before |-> access_token_exp,
     returned |-> get_token(response, access_token, access_token_exp, t).returned]

\* The record kept of a GET: the answer, the bearer token of its
\* Authorization header, the arguments of the call, the query parameters
\* (published-min, published-max) and, at the time it was sent,
\* whether the stored expiry was within 5 seconds, the _retried argument
\* and the number of token requests the call had made.
GetRecord(response, args, params) ==
    [status_code |-> response.status_code, text |-> response.text,
     bearer |-> access_token, args |-> args, params |-> params,
     expiring |-> (now > access_token_exp - 5),
     _retried |-> retried, posts |-> posts]

\* The record kept of an evaluation of need_token.
NeedRecord ==
    <<[result |-> need_token(now, access_token_exp), at |-> now,
       exp |-> access_token_exp, token |-> access_token]>>

InitApi ==
    /\ now = 0
    /\ access_token = None
    /\ access_token_exp = 0
    /\ op = "idle"
    /\ pc = "idle"
    /\ retried = FALSE
    /\ frames = 0
    /\ gets = <<>>
    /\ posts = 0
    /\ post = <<>>
    /\ need = <<>>
    /\ ret = None
    /\ calls = 0

\* time.time() advances between any two steps.
Tick ==
    /\ now < MaxTime
    /\ now' = now + 1
    /\ UNCHANGED <<access_token, access_token_exp, op, pc, retried, frames,
                   gets, posts, post, need, ret, calls>>
    /\ UNCHANGED <<parseVars, registerVars>>

\* The caller starts a call of one of the public methods.
Begin(method, first) ==
    /\ pc \in {"idle", "done"}
    /\ calls < MaxCalls
    /\ calls' = calls + 1
    /\ op' = method
    /\ pc' = first
    /\ retried' = FALSE
    /\ frames' = 0
    /\ gets' = <<>>
    /\ posts' = 0
    /\ post' = <<>>
    /\ need' = <<>>
    /\ ret' = None
    /\ UNCHANGED <<now, access_token, access_token_exp>>
    /\ testing' = <<>>
    /\ UNCHANGED <<register_access_token, testing_completed>>
    /\ UNCHANGED parseVars

\* need_token() called by the user, lines 91-95.
CallNeedToken ==
    /\ pc \in {"idle", "done"}
    /\ calls < MaxCalls
    /\ calls' = calls + 1
    /\ op' = "need_token"
    /\ pc' = "done"
    /\ need' = NeedRecord
    /\ ret' = IF need_token(now, access_token_exp) THEN "True" ELSE "False"
    /\ retried' = FALSE
    /\ frames' = 0
    /\ gets' = <<>>
    /\ posts' = 0
    /\ post' = <<>>
    /\ UNCHANGED <<now, access_token, access_token_exp>>
    /\ UNCHANGED <<parseVars, registerVars>>

\* get_token() called by the user, lines 97-128.
CallGetToken ==
    /\ pc \in {"idle", "done"}
    /\ calls < MaxCalls
    /\ \E response \in TokenResponses :
        LET r == get_token(response, access_token, access_token_exp, now)
        IN  /\ access_token' = r.access_token
            /\ access_token_exp' = r.access_token_exp
            /\ ret' = r.returned
            /\ post' = <<PostRecord(response, now)>>
    /\ calls' = calls + 1
    /\ op' = "get_token"
    /\ pc' = "done"
    /\ posts' = 1
    /\ retried' = FALSE
    /\ frames' = 0
    /\ gets' = <<>>
    /\ need' = <<>>
    /\ UNCHANGED now
    /\ UNCHANGED <<parseVars, registerVars>>

\* get_espi_data(resource_uri) called by the user, line 271.
CallGetEspiData == Begin("get_espi_data", "need_token")

\* Line 277: if self.need_token()
EspiNeedToken ==
    /\ op = "get_espi_data"
    /\ pc = "need_token"
    /\ need' = NeedRecord
    /\ pc' = IF need_token(now, access_token_exp) THEN "get_token" ELSE "get"
    /\ UNCHANGED <<now, access_token, access_token_exp, op, retried, frames,
                   gets, posts, post, ret, calls>>
    /\ UNCHANGED <<parseVars, registerVars>>

\* Line 278: self.get_token(), the returned value is not looked at.
EspiGetToken ==
    /\ op = "get_espi_data"
    /\ pc = "get_token"
    /\ \E response \in TokenResponses :
        LET r == get_token(response, access_token, access_token_exp, now)
        IN  /\ access_token' = r.access_token
            /\ access_token_exp' = r.access_token_exp
            /\ post' = <<PostRecord(response, now)>>
            /\ IF r.returned \in Exceptions
               THEN /\ pc' = "done"
                    /\ ret' = r.returned
                    /\ frames' = 0
               ELSE /\ pc' = "get"
                    /\ UNCHANGED <<ret, frames>>
    /\ posts' = posts + 1
    /\ UNCHANGED <<now, op, retried, gets, need, calls>>
    /\ UNCHANGED <<parseVars, registerVars>>

\* Lines 280-306: the GET and the branch on its status code.
EspiGet ==
    /\ op = "get_espi_data"
    /\ pc = "get"
    /\ \E response \in GetResponses :
        /\ gets' = Append(gets, GetRecord(response, <<>>, <<>>))
        /\ IF response.status_code = 0
           THEN \* line 282 raises, the exception leaves every frame
                /\ pc' = "done"
                /\ ret' = ConnectionError
                /\ frames' = 0
           ELSE IF response.status_code = 200
           THEN /\ pc' = "return"
                /\ ret' = response.text
                /\ UNCHANGED frames
           ELSE IF refresh_and_retry(response.status_code, retried)
           THEN /\ pc' = "refresh"
                /\ UNCHANGED <<ret, frames>>
           ELSE \* 403 after a retry returns None; any other status falls
                \* off the end of the function
                /\ pc' = "return"
                /\ ret' = None
                /\ UNCHANGED frames
    /\ UNCHANGED <<now, access_token, access_token_exp, op, retried,
                   posts, post, need, calls>>
    /\ UNCHANGED <<parseVars, registerVars>>

\* Lines 294-295: if self.get_token(): self.get_espi_data(uri, _retried=True)
EspiRefresh ==
    /\ op = "get_espi_data"
    /\ pc = "refresh"
    /\ \E response \in TokenResponses :
        LET r == get_token(response, access_token, access_token_exp, now)
        IN  /\ access_token' = r.access_token
            /\ access_token_exp' = r.access_token_exp
            /\ post' = <<PostRecord(response, now)>>
            /\ IF r.returned \in Exceptions
               THEN /\ pc' = "done"
                    /\ ret' = r.returned
                    /\ frames' = 0
                    /\ UNCHANGED retried
               ELSE IF Truthy(r.returned)
               THEN /\ pc' = "need_token"
                    /\ frames' = frames + 1
                    /\ retried' = TRUE
                    /\ UNCHANGED ret
               ELSE /\ pc' = "return"
                    /\ ret' = None
                    /\ UNCHANGED <<frames, retried>>
    /\ posts' = posts + 1
    /\ UNCHANGED <<now, op, gets, need, calls>>
    /\ UNCHANGED <<parseVars, registerVars>>

\* A frame of get_espi_data returns.  The frame that made the recursive call
\* of line 295 drops the value it gets back, logs (lines 303-306) and falls
\* off the end of the function, which returns None.
EspiReturn ==
    /\ op = "get_espi_data"
    /\ pc = "return"
    /\ IF frames > 0
       THEN /\ frames' = frames - 1
            /\ retried' = FALSE
            /\ ret' = None
            /\ pc' = "return"
       ELSE /\ pc' = "done"
            /\ UNCHANGED <<frames, retried, ret>>
    /\ UNCHANGED <<now, access_token, access_token_exp, op, gets, posts,
                   post, need, calls>>
    /\ UNCHANGED <<parseVars, registerVars>>

NextApi ==
    \/ Tick
    \/ CallNeedToken
    \/ CallGetToken
    \/ CallGetEspiData
    \/ EspiNeedToken
    \/ EspiGetToken
    \/ EspiGet
    \/ EspiRefresh
    \/ EspiReturn

\* No document is being parsed.
IdleParse ==
    /\ xml = <<>>
    /\ it = 1
    /\ previous = Unbound
    /\ mp = Unbound
    /\ yielded = <<>>
    /\ origin = <<>>
    /\ parse = "idle"

\* PgeRegister.__init__, lines 374-380.
InitRegister ==
    /\ register_access_token = None
    /\ testing_completed = FALSE
    /\ testing = <<>>

Init == InitApi /\ IdleParse /\ InitRegister
Next == NextApi
Spec == Init /\ [][Next]_vars

InitDocument == InitParse /\ InitApi /\ InitRegister
NextDocument == NextParse
SpecParse == InitDocument /\ [][NextDocument]_vars

\* A feed as the utility sends it: readings of one duration in time order,
\* each starting 0 (a repeated hour), 1 or 2 (a missing hour) intervals after
\* the one before it, behind at most one powerOfTenMultiplier.
Steps == {0, 1, 2}

RECURSIVE SumTo(_, _)
SumTo(steps, k) == IF k = 0 THEN 0 ELSE steps[k] + SumTo(steps, k - 1)

Feed(duration, steps, values) ==
    [k \in 1..Len(values) |->
        [tag |-> "IntervalReading", start |-> duration * SumTo(steps, k - 1),
         duration |-> duration, value |-> values[k]]]

InitFeed ==
    /\ \E head \in DocumentHeads, duration \in Durations, n \in 0..MaxFeed :
        \E steps \in [1..(n - 1) -> Steps], values \in [1..n -> Values] :
            xml = head \o Feed(duration, steps, values)
    /\ it = 1
    /\ previous = Unbound
    /\ mp = Unbound
    /\ yielded = <<>>
    /\ origin = <<>>
    /\ parse = "start"
    /\ InitApi
    /\ InitRegister

NextFeed == NextParse
SpecFeed == InitFeed /\ [][NextFeed]_vars

(***************************************************************************)
(* api.py : the request_* methods and get_service_status                   *)
(***************************************************************************)
RequestMethods ==
    {"request_latest_data", "request_sequential_data", "request_date_data",
     "request_historical_data"}

\* What the Bulk Resource URI may answer.
BulkResponses ==
    [status_code : BulkStatuses, text : {""}]
    \cup [status_code : {0}, text : {""}]

\* What the service status URI may answer.
ServiceResponses ==
    [status_code : ServiceStatuses, text : ServiceTexts]
    \cup [status_code : {0}, text : {""}]

\* datetime.strptime(date, "%Y-%m-%d") - datetime(1970, 1, 1), in days.
DaysFromCivil(y, m, d) ==
    LET yy == IF m <= 2 THEN y - 1 ELSE y
        era == yy \div 400
        yoe == yy - era * 400
        mm == IF m > 2 THEN m - 3 ELSE m + 9
        doy == (153 * mm + 2) \div 5 + d - 1
        doe == yoe * 365 + yoe \div 4 - yoe \div 100 + doy
    IN  era * 146097 + doe - 719468

\* Day of the week of a day number, 0 for Sunday.
Weekday(days) == (days + 4) % 7

\* The first Sunday on or after a day number.
SundayFrom(days) == days + ((7 - Weekday(days)) % 7)

\* timezone("US/Pacific").utcoffset(dt).total_seconds() for the naive
\* midnight dt of a date: daylight time runs from 02:00 on the second Sunday
\* of March to 02:00 on the first Sunday of November.
UtcOffsetAlwaysStandard(date) == -28800
utcoffset(date) ==
    LET days == DaysFromCivil(date.year, date.month, date.day)
        spring == SundayFrom(DaysFromCivil(date.year, 3, 1)) + 7
        fall == SundayFrom(DaysFromCivil(date.year, 11, 1))
    IN  IF days > spring /\ days <= fall THEN -25200 ELSE -28800

\* request_date_data, lines 197-207: the query parameters for a date.
date_params(date) ==
    LET offset == utcoffset(date)
        epoch == DaysFromCivil(date.year, date.month, date.day) * 86400
        start_date == epoch - offset
        end_date == start_date + 82800
    IN  <<start_date, end_date>>

\* request_sequential_data, lines 159-165.
sequential_params(start, end_date, t) ==
    <<start, IF end_date = <<>> \/ end_date = <<0>> THEN t ELSE end_date[1]>>

\* request_historical_data, lines 240-248.
historical_params(days, end_date, t) ==
    LET end == IF end_date = <<>> \/ end_date = <<0>> THEN t ELSE end_date[1]
    IN  <<end - 86400 * days, end>>

\* The arguments a call may be given and the query parameters it sends.
Requests(method, t) ==
    CASE method = "request_latest_data" ->
            {[args |-> <<>>, params |-> <<>>]}
      [] method = "request_sequential_data" ->
            {[args |-> <<start, end_date>>,
              params |-> sequential_params(start, end_date, t)] :
                start \in StartArgs, end_date \in EndDateArgs}
      [] method = "request_date_data" ->
            {[args |-> <<date>>, params |-> date_params(date)] :
                date \in Dates}
      [] method = "request_historical_data" ->
            {[args |-> <<days, end_date>>,
              params |-> historical_params(days, end_date, t)] :
                days \in DaysArgs, end_date \in EndDateArgs}

\* Lines 145-152 (and 179-186, 221-228, 262-269): the returned value.
request_result(status_code) == IF status_code = 202 THEN "True" ELSE "False"

\* get_service_status, lines 318-333: the returned value for an answer.
\* bool(response) is false for a status of 400 and more.
service_status(response) ==
    IF response.status_code >= 400 THEN "False"
    ELSE IF response.status_code # 200 THEN "False"
    ELSE IF response.text = "<a"
    THEN "False"            \* ET.ParseError is caught
    ELSE IF response.text = "<a/>"
    THEN IndexError         \* root[0] on a root without children
    ELSE IF response.text = "<a><b>1</b></a>" THEN "True" ELSE "False"

CallRequestLatestData == Begin("request_latest_data", "need_token")
CallRequestSequentialData == Begin("request_sequential_data", "need_token")
CallRequestDateData == Begin("request_date_data", "need_token")
CallRequestHistoricalData == Begin("request_historical_data", "need_token")
CallGetServiceStatus == Begin("get_service_status", "need_token")

\* Lines 132, 156, 194, 237, 310: if self.need_token()
EnsureNeedToken ==
    /\ op \in RequestMethods \cup {"get_service_status"}
    /\ pc = "need_token"
    /\ need' = NeedRecord
    /\ pc' = IF need_token(now, access_token_exp) THEN "get_token" ELSE "get"
    /\ UNCHANGED <<now, access_token, access_token_exp, op, retried, frames,
                   gets, posts, post, ret, calls>>
    /\ UNCHANGED <<parseVars, registerVars>>

\* Lines 133, 157, 195, 238, 311: self.get_token(), result not looked at.
EnsureGetToken ==
    /\ op \in RequestMethods \cup {"get_service_status"}
    /\ pc = "get_token"
    /\ \E response \in TokenResponses :
        LET r == get_token(response, access_token, access_token_exp, now)
        IN  /\ access_token' = r.access_token
            /\ access_token_exp' = r.access_token_exp
            /\ post' = <<PostRecord(response, now)>>
            /\ IF r.returned \in Exceptions
               THEN /\ pc' = "done"
                    /\ ret' = r.returned
               ELSE /\ pc' = "get"
                    /\ UNCHANGED ret
    /\ posts' = posts + 1
    /\ UNCHANGED <<now, op, retried, frames, gets, need, calls>>
    /\ UNCHANGED <<parseVars, registerVars>>

\* The GET to the Bulk Resource URI and the returned value: lines 135-152,
\* 159-186, 197-228, 240-269.
RequestGet ==
    /\ op \in RequestMethods
    /\ pc = "get"
    /\ \E response \in BulkResponses, request \in Requests(op, now) :
        /\ gets' = Append(gets,
                          GetRecord(response, request.args, request.params))
        /\ ret' = IF response.status_code = 0 THEN ConnectionError
                  ELSE request_result(response.status_code)
    /\ pc' = "done"
    /\ UNCHANGED <<now, access_token, access_token_exp, op, retried, frames,
                   posts, post, need, calls>>
    /\ UNCHANGED <<parseVars, registerVars>>

\* Lines 312-333: the GET to the service status URI and the returned value.
ServiceStatusGet ==
    /\ op = "get_service_status"
    /\ pc = "get"
    /\ \E response \in ServiceResponses :
        /\ gets' = Append(gets, GetRecord(response, <<>>, <<>>))
        /\ ret' = IF response.status_code = 0 THEN ConnectionError
                  ELSE service_status(response)
    /\ pc' = "done"
    /\ UNCHANGED <<now, access_token, access_token_exp, op, retried, frames,
                   posts, post, need, calls>>
    /\ UNCHANGED <<parseVars, registerVars>>

NextRequest ==
    \/ Tick
    \/ CallGetToken
    \/ CallRequestLatestData
    \/ CallRequestSequentialData
    \/ CallRequestDateData
    \/ CallRequestHistoricalData
    \/ CallGetServiceStatus
    \/ EnsureNeedToken
    \/ EnsureGetToken
    \/ RequestGet
    \/ ServiceStatusGet

SpecRequest == Init /\ [][NextRequest]_vars

\* time.time() advances between the need_token() test and the GET.
TickBeforeGet == pc = "get" /\ Tick

\* The methods that send a GET with the stored token, and get_token, in any
\* order.
NextSession ==
    \/ TickBeforeGet
    \/ CallGetToken
    \/ CallRequestLatestData
    \/ CallRequestSequentialData
    \/ CallRequestDateData
    \/ CallRequestHistoricalData
    \/ EnsureNeedToken
    \/ EnsureGetToken
    \/ RequestGet
    \/ CallGetEspiData
    \/ EspiNeedToken
    \/ EspiGetToken
    \/ EspiGet
    \/ EspiRefresh
    \/ EspiReturn
SpecSession == Init /\ [][NextSession]_vars

(***************************************************************************)
(* api.py : PgeRegister                                                    *)
(***************************************************************************)
RegisterStatuses == {200, 202, 500}
BulkId == "bulk_id"
ThirdPartyTexts == {"<feed>bulk_id</feed>", "<feed/>", "<feed"}
ParseError == "ParseError"
RegisterExceptions == Exceptions \cup {ParseError}

\* What the DownloadSampleData URI may answer.
SampleResponses ==
    [status_code : RegisterStatuses, text : {""}]
    \cup [status_code : {0}, text : {""}]

\* What the Authorization URI may answer.
ThirdPartyResponses ==
    [status_code : {200, 500}, text : ThirdPartyTexts]
    \cup [status_code : {0}, text : {""}]

\* The record kept of a step of the running call.
Step(name, status_code, text, returned) ==
    [step |-> name, status_code |-> status_code, text |-> text,
     returned |-> returned]

\* PgeRegister.get_service_status, lines 405-418: the returned value.
register_service_status(response) ==
    IF response.status_code = 0 THEN ConnectionError
    ELSE IF response.status_code >= 400 THEN "False"
    ELSE IF response.status_code # 200 THEN "False"
    ELSE IF response.text = "<a"
    THEN "False"
    ELSE IF response.text = "<a/>"
    THEN IndexError
    ELSE IF response.text = "<a><b>1</b></a>" THEN "True" ELSE "False"

\* PgeRegister.get_sample_data, lines 427-434: the returned value.
get_sample_data(response) ==
    IF response.status_code = 0 THEN ConnectionError
    ELSE IF response.status_code >= 400 THEN "False"
    ELSE IF response.status_code # 200 \/ response.status_code # 202
    THEN "False"
    ELSE "True"

\* PgeRegister.get_third_party_id, lines 446-465: the returned value.
get_third_party_id(response) ==
    IF response.status_code = 0 THEN ConnectionError
    ELSE IF response.status_code # 200 THEN None
    ELSE IF response.text = "<feed"
    THEN ParseError
    ELSE IF response.text = "<feed>bulk_id</feed>" THEN BulkId ELSE None

\* complete_testing() called by the user, line 467.
CallCompleteTesting == Begin("complete_testing", "get_token")

\* get_third_party_id() called by the user, line 436.
CallGetThirdPartyId == Begin("get_third_party_id", "get_third_party_id")

\* Lines 468-471, with PgeRegister.get_token, lines 391-401.
TestingGetToken ==
    /\ op = "complete_testing"
    /\ pc = "get_token"
    /\ \E response \in TokenResponses :
        LET r == get_token(response, access_token, access_token_exp, now)
        IN  /\ access_token' = r.access_token
            /\ access_token_exp' = r.access_token_exp
            /\ post' = <<PostRecord(response, now)>>
            /\ testing' = Append(testing,
                    Step("get_token", response.status, "", r.returned))
            /\ IF r.returned \in Exceptions
               THEN /\ pc' = "done"
                    /\ ret' = r.returned
                    /\ UNCHANGED register_access_token
               ELSE /\ register_access_token' = r.returned
                    /\ pc' = IF Truthy(r.returned) THEN "get_service_status"
                             ELSE "done"
                    /\ UNCHANGED ret
    /\ posts' = posts + 1
    /\ UNCHANGED <<now, op, retried, frames, gets, need, calls>>
    /\ UNCHANGED testing_completed
    /\ UNCHANGED parseVars

\* Lines 473-475, with PgeRegister.get_service_status, lines 398-418.
TestingServiceStatus ==
    /\ op = "complete_testing"
    /\ pc = "get_service_status"
    /\ \E response \in ServiceResponses :
        LET returned == register_service_status(response)
        IN  /\ testing' = Append(testing,
                    Step("get_service_status", response.status_code,
                         response.text, returned))
            /\ ret' = IF returned \in RegisterExceptions THEN returned
                      ELSE ret
            /\ pc' = IF returned = "True" THEN "get_sample_data" ELSE "done"
    /\ UNCHANGED <<now, access_token, access_token_exp, op, retried, frames,
                   gets, posts, post, need, calls>>
    /\ UNCHANGED <<register_access_token, testing_completed>>
    /\ UNCHANGED parseVars

\* Lines 477-479, with PgeRegister.get_sample_data, lines 420-434.
TestingSampleData ==
    /\ op = "complete_testing"
    /\ pc = "get_sample_data"
    /\ \E response \in SampleResponses :
        LET returned == get_sample_data(response)
        IN  /\ testing' = Append(testing,
                    Step("get_sample_data", response.status_code,
                         response.text, returned))
            /\ testing_completed' =
                   IF returned = "True" THEN TRUE ELSE testing_completed
            /\ ret' = IF returned \in RegisterExceptions THEN returned
                      ELSE ret
            /\ pc' = IF returned = "True" THEN "get_third_party_id"
                     ELSE "done"
    /\ UNCHANGED <<now, access_token, access_token_exp, op, retried, frames,
                   gets, posts, post, need, calls>>
    /\ UNCHANGED register_access_token
    /\ UNCHANGED parseVars

\* PgeRegister.get_third_party_id, lines 436-465, called by the user or at
\* lines 481-485 of complete_testing, which returns nothing.
RegisterGetThirdPartyId ==
    /\ op \in {"complete_testing", "get_third_party_id"}
    /\ pc = "get_third_party_id"
    /\ \E response \in ThirdPartyResponses :
        LET returned == get_third_party_id(response)
        IN  /\ testing' = Append(testing,
                    Step("get_third_party_id", response.status_code,
                         response.text, returned))
            /\ ret' = IF op = "complete_testing"
                         /\ returned \notin RegisterExceptions
                      THEN None
                      ELSE returned
    /\ pc' = "done"
    /\ UNCHANGED <<now, access_token, access_token_exp, op, retried, frames,
                   gets, posts, post, need, calls>>
    /\ UNCHANGED <<register_access_token, testing_completed>>
    /\ UNCHANGED parseVars

NextRegister ==
    \/ CallCompleteTesting
    \/ CallGetThirdPartyId
    \/ TestingGetToken
    \/ TestingServiceStatus
    \/ TestingSampleData
    \/ RegisterGetThirdPartyId

SpecRegister == Init /\ [][NextRegister]_vars

(***************************************************************************)
(* Properties of get_espi_data, need_token and get_token                   *)
(***************************************************************************)

\* C1: a get_espi_data call whose first GET is answered 403, whose forced
\* refresh succeeds and whose retry GET is answered 200 returns the body of
\* the second response.
C1_RetryBodyReturned ==
    (/\ op = "get_espi_data"
     /\ pc = "done"
     /\ Len(gets) = 2
     /\ gets[1].status_code = 403
     /\ gets[2].status_code = 200)
    => ret = gets[2].text

\* C2: one call of get_espi_data sends at most two GETs, the second only
\* after a 403 on the first, and a 403 on the second ends the call with None.
C2_AtMostTwoGets ==
    op = "get_espi_data" =>
        /\ Len(gets) <= 2
        /\ Len(gets) >= 2 => gets[1].status_code = 403
        /\ (Len(gets) = 2 /\ gets[2].status_code = 403) =>
               /\ pc \in {"return", "done"}
               /\ ret = None

C2_TwiceDenied ==
    /\ op = "get_espi_data"
    /\ pc = "done"
    /\ Len(gets) = 2
    /\ gets[1].status_code = 403
    /\ gets[2].status_code = 403
    /\ ret = None

\* C8 as stated: need_token() is true exactly when now >= expires_at - 5,
\* the boundary now = expires_at - 5 included, and true in a fresh session.
C8_NeedTokenFromBoundary ==
    need # <<>> =>
        /\ need[1].result <=> (need[1].at >= need[1].exp - 5)
        /\ need[1].token = None => need[1].result

\* C8 amended: need_token() is true exactly when now > expires_at - 5 (at
\* the boundary now = expires_at - 5 it is false), and true in a fresh
\* session where no token was ever obtained.
C8_NeedTokenAfterBoundary ==
    need # <<>> =>
        /\ need[1].result <=> (need[1].at > need[1].exp - 5)
        /\ need[1].token = None => need[1].result

C8_AtBoundary ==
    /\ need # <<>>
    /\ need[1].token # None
    /\ need[1].at = need[1].exp - 5
    /\ ~need[1].result

\* C9: when get_token() fails (a status other than 200, or a 200 JSON body
\* without the access-token key or without the expires-in key) the stored
\* token and the stored expiry are what they were before the call.
C9_FailedRefreshKeepsToken ==
    (/\ post # <<>>
     /\ \/ post[1].response.status # 200
        \/ /\ post[1].response.json
           /\ \/ post[1].response.client_access_token = <<>>
              \/ post[1].response.expires_in = <<>>)
    => /\ access_token = post[1].token_before
       /\ access_token_exp = post[1].exp_before

\* C10: when the token endpoint answers 200 with a JSON body holding a token
\* T and an expires-in E, get_token() returns T, the stored token is T and the
\* stored expiry is the time read by the call plus E.
C10_SuccessfulRefreshStores ==
    (/\ post # <<>>
     /\ post[1].response.status = 200
     /\ post[1].response.json
     /\ post[1].response.client_access_token # <<>>
     /\ post[1].response.expires_in # <<>>)
    => /\ post[1].returned = post[1].response.client_access_token[1]
       /\ access_token = post[1].response.client_access_token[1]
       /\ access_token_exp = post[1].at + post[1].response.expires_in[1]

C10_Overwritten ==
    /\ post # <<>>
    /\ post[1].response.status = 200
    /\ post[1].response.json
    /\ post[1].response.client_access_token # <<>>
    /\ post[1].response.expires_in # <<>>
    /\ post[1].at > 0
    /\ post[1].token_before \notin {None, access_token}
    /\ post[1].exp_before # access_token_exp
    /\ access_token = post[1].response.client_access_token[1]

\* C13: whatever the HTTP exchange (any status, no answer at all, a 200
\* token answer that is not JSON), get_token, the request_* calls and
\* get_espi_data return None or False instead of raising.
C13_NoCallRaises == pc = "done" => ret \notin Exceptions

\* C17: after a first 403 the token is refreshed before anything else; the
\* retry GET is sent only after that refresh and carries a token obtained
\* since the 403; when the refresh fails no second GET is sent and the call
\* returns failure (None).
C17_RefreshThenRetry ==
    (op = "get_espi_data" /\ gets # <<>> /\ gets[1].status_code = 403) =>
        /\ Len(gets) >= 2 =>
            /\ gets[2].posts > gets[1].posts
            /\ gets[2].bearer \in Tokens
        /\ (pc = "done" /\ Len(gets) = 1) =>
            /\ posts > gets[1].posts
            /\ ret = None

\* C18: in get_espi_data an answer whose status is neither 200 nor 403, on
\* the first or on the retry GET, ends the call with None: no token refresh
\* and no GET follows it.
C18_OtherStatusTerminal ==
    op = "get_espi_data" =>
        \A i \in DOMAIN gets :
            gets[i].status_code \notin {0, 200, 403} =>
                /\ i = Len(gets)
                /\ posts = gets[i].posts
                /\ pc \in {"return", "done"}
                /\ ret = None

C18_RetryAnsweredOther ==
    /\ op = "get_espi_data"
    /\ pc = "done"
    /\ Len(gets) = 2
    /\ gets[1].status_code = 403
    /\ gets[2].status_code = 500
    /\ posts = gets[2].posts
    /\ ret = None

(***************************************************************************)
(* Properties of the request_* methods and get_service_status              *)
(***************************************************************************)

\* C11: a finished request_* call has sent exactly one GET to the Bulk
\* Resource URI, has returned True exactly when that GET answered 202, and
\* has returned False for every other answer.
C11_OneGetTrueIff202 ==
    (op \in RequestMethods /\ pc = "done") =>
        /\ Len(gets) = 1
        /\ ret = "True" <=> gets[1].status_code = 202
        /\ gets[1].status_code # 202 => ret = "False"

\* C12: every GET of a request_* call or of get_espi_data is sent with a
\* bearer token that was obtained from the token endpoint and that is not
\* within 5 seconds of its expiry.
C12_ValidTokenBeforeGet ==
    op \in RequestMethods \cup {"get_espi_data"} =>
        \A i \in DOMAIN gets :
            /\ gets[i].bearer \in Tokens
            /\ ~gets[i].expiring

\* C14: once the status endpoint has answered, get_service_status returns
\* True when the answer is 200 with a root whose first child has text "1"
\* and False for every other answer; it never raises.
C14_ServiceStatus ==
    (op = "get_service_status" /\ pc = "done" /\ Len(gets) = 1
        /\ gets[1].status_code # 0) =>
        /\ ret \in {"True", "False"}
        /\ ret = "True" <=>
            (gets[1].status_code = 200 /\ gets[1].text = "<a><b>1</b></a>")

\* C16: request_date_data sends published-min equal to the UTC epoch of the
\* local midnight of its date (-8h standard, -7h daylight; the epochs below
\* are those of the US/Pacific zone) and published-max 82800 seconds later.
C16_DateWindow ==
    LET LocalMidnight(date) ==
            CASE date = [year |-> 2019, month |-> 3, day |-> 9] -> 1552118400
              [] date = [year |-> 2019, month |-> 3, day |-> 10] -> 1552204800
              [] date = [year |-> 2019, month |-> 3, day |-> 11] -> 1552287600
              [] date = [year |-> 2019, month |-> 7, day |-> 4] -> 1562223600
              [] date = [year |-> 2019, month |-> 11, day |-> 3] -> 1572764400
              [] date = [year |-> 2019, month |-> 11, day |-> 4] -> 1572854400
    IN  op = "request_date_data" =>
            \A i \in DOMAIN gets :
                /\ gets[i].params[1] = LocalMidnight(gets[i].args[1])
                /\ gets[i].params[2] = gets[i].params[1] + 82800

\* A request for the first whole day of daylight time has been sent.
C16_DaylightDateSent ==
    /\ op = "request_date_data" /\ pc = "done" /\ Len(gets) = 1
    /\ gets[1].args = <<[year |-> 2019, month |-> 3, day |-> 11]>>
    /\ gets[1].params = <<1552287600, 1552370400>>

\* C22: a request_* call, or a get_espi_data call that has received no 403,
\* whose need_token() was false has sent nothing to the token endpoint and
\* holds the token and the expiry it started with; and no step changes the
\* token or the expiry unless it is a get_token().
C22_TokenFrame ==
    /\ []((/\ op \in RequestMethods \cup {"get_espi_data"}
            /\ need # <<>>
            /\ ~need[1].result
            /\ \A i \in DOMAIN gets : gets[i].status_code # 403) =>
                /\ posts = 0
                /\ access_token = need[1].token
                /\ access_token_exp = need[1].exp)
    /\ [][(access_token' # access_token
            \/ access_token_exp' # access_token_exp) =>
                /\ post' # <<>>
                /\ posts' = IF op' = "get_token" THEN 1 ELSE posts + 1]_vars

\* A request_* call and a get_espi_data call made with a fresh token have
\* finished without touching it.
C22_FreshTokenKept ==
    /\ op \in RequestMethods \cup {"get_espi_data"}
    /\ pc = "done"
    /\ need # <<>> /\ ~need[1].result
    /\ gets # <<>> /\ \A i \in DOMAIN gets : gets[i].status_code \in {200, 202}
    /\ posts = 0
    /\ access_token \in Tokens
    /\ access_token = need[1].token
    /\ access_token_exp = need[1].exp
    /\ now > need[1].at

\* C24: whatever the servers answer and whatever expires_in the token
\* endpoint returns, one call of get_espi_data sends at most two requests to
\* the token endpoint.
C24_AtMostTwoTokenRequests == op = "get_espi_data" => posts <= 2

(***************************************************************************)
(* Properties of parse_espi_data                                           *)
(***************************************************************************)

\* The powerOfTenMultiplier in scope at element i of a document.
RECURSIVE MultiplierAt(_, _)
MultiplierAt(doc, i) ==
    IF i = 1 THEN Unbound
    ELSE IF ~IsReading(doc[i - 1]) THEN <<doc[i - 1].text>>
    ELSE MultiplierAt(doc, i - 1)

\* The positions of the readings of a document, in document order.
ReadingPositions(doc) == {i \in DOMAIN doc : IsReading(doc[i])}

\* Positions i < j of two readings with no reading between them.
Consecutive(doc, i, j) ==
    /\ i \in ReadingPositions(doc)
    /\ j \in ReadingPositions(doc)
    /\ i < j
    /\ \A k \in ReadingPositions(doc) : ~(i < k /\ k < j)

\* A feed of one duration whose starts never go back and never skip more
\* than one interval.
UniformFeed(doc) ==
    /\ ReadingPositions(doc) # {}
    /\ \A i, j \in ReadingPositions(doc) : doc[i].duration = doc[j].duration
    /\ \A i, j \in ReadingPositions(doc) :
        Consecutive(doc, i, j) =>
            doc[j].start - doc[i].start
                \in {0, doc[i].duration, 2 * doc[i].duration}

\* C3: in every document (durations positive, not necessarily equal) each
\* yielded reading starts where the one yielded before it ends.
C3_Contiguity ==
    \A i \in 1..(Len(yielded) - 1) :
        yielded[i + 1][1] = yielded[i][1] + yielded[i][2]

\* C4: raw readings A = (S, D, 10) and B = (S + 2D, D, 20) are yielded as A,
\* the synthesized (S + D, D, 15), then B.
C4_SpringForward ==
    (/\ parse = "done"
     /\ Len(xml) = 3
     /\ ReadingPositions(xml) = {2, 3}
     /\ xml[2].duration = xml[3].duration
     /\ xml[3].start = xml[2].start + 2 * xml[2].duration
     /\ WattHours(xml[2].value, xml[1].text, xml[2].duration) = 10
     /\ WattHours(xml[3].value, xml[1].text, xml[3].duration) = 20)
    => yielded = << <<xml[2].start, xml[2].duration, 10>>,
                    <<xml[2].start + xml[2].duration, xml[2].duration, 15>>,
                    <<xml[3].start, xml[3].duration, 20>> >>

\* C5: whenever two consecutive raw readings have the same start, exactly one
\* reading with that start is yielded and it carries the watt-hours of the
\* first of the two (checked on feeds of one duration whose starts never go
\* back).
C5_FallBackDedup ==
    (parse = "done" /\ UniformFeed(xml)) =>
        \A i, j \in ReadingPositions(xml) :
            (/\ Consecutive(xml, i, j)
             /\ xml[i].start = xml[j].start
             /\ \A k \in ReadingPositions(xml) :
                    k < i => xml[k].start # xml[i].start) =>
                /\ Cardinality({k \in DOMAIN yielded :
                                    yielded[k][1] = xml[i].start}) = 1
                /\ \A k \in DOMAIN yielded :
                    yielded[k][1] = xml[i].start =>
                        yielded[k][3] =
                            WattHours(xml[i].value, MultiplierAt(xml, i)[1],
                                      xml[i].duration)

\* C6: on a feed of one duration D whose starts never go back (duplicates and
\* one-interval gaps allowed) the yielded readings run from the first raw
\* start to the last raw start: (last - first) / D + 1 of them.
C6_FullSpan ==
    (parse = "done" /\ UniformFeed(xml)) =>
        LET raw == Readings(xml)
            first == raw[1].start
            last == raw[Len(raw)].start
        IN  /\ yielded # <<>>
            /\ yielded[1][1] = first
            /\ yielded[Len(yielded)][1] = last
            /\ Len(yielded) = (last - first) \div raw[1].duration + 1

\* C7: a document without IntervalBlock (without timePeriod) yields nothing
\* and its parse ends normally, with no error raised.
C7_EmptyDocument ==
    Readings(xml) = <<>> =>
        /\ parse # "UnboundLocalError"
        /\ yielded = <<>>

\* C15: every yielded reading that is not an interpolated one has
\* watt_hours = round(value * 10^m * duration / 3600), m being the
\* powerOfTenMultiplier declared last before that reading in the document.
C15_MultiplierScoping ==
    \A k \in DOMAIN yielded :
        ~origin[k].synthesized =>
            LET i == origin[k].position
                m == MultiplierAt(xml, i)
            IN  /\ m # Unbound
                /\ yielded[k][3] =
                       Round(xml[i].value * Pow10(m[1]) * xml[i].duration,
                             3600)

\* A multiplier redeclared between two readings of the same raw value: the
\* first is yielded with the old exponent and the second with the new one.
C15_Redeclared ==
    /\ parse = "done"
    /\ Len(yielded) = 2
    /\ ~origin[1].synthesized /\ ~origin[2].synthesized
    /\ xml[origin[1].position].value = xml[origin[2].position].value
    /\ xml[origin[1].position].duration = xml[origin[2].position].duration
    /\ MultiplierAt(xml, origin[1].position) = <<1>>
    /\ MultiplierAt(xml, origin[2].position) = <<0>>
    /\ yielded[1][3] = 10 * yielded[2][3]
    /\ yielded[2][3] # 0

\* C19: the watt_hours of an interpolated reading is
\* round((previous.watt_hours + this_reading.watt_hours) / 2), whatever the
\* parity and the sign of the sum.
C19_InterpolatedRounds ==
    \A k \in DOMAIN yielded :
        origin[k].synthesized =>
            LET i == origin[k].position
                this == Round(xml[i].value * Pow10(MultiplierAt(xml, i)[1])
                                  * xml[i].duration, 3600)
                before == IF k = 1 THEN 0 ELSE yielded[k - 1][3]
            IN  yielded[k][3] = Round(before + this, 2)

\* C20: a reading that follows a yielded one is replaced by an interpolated
\* reading exactly when its start differs from previous.start +
\* previous.duration; otherwise it is yielded as it is, whatever its own
\* duration.
C20_GapByPredecessorDuration ==
    \A k \in DOMAIN yielded :
        k > 1 =>
            LET i == origin[k].position
                contiguous ==
                    xml[i].start = yielded[k - 1][1] + yielded[k - 1][2]
            IN  /\ origin[k].synthesized <=> ~contiguous
                /\ contiguous =>
                    /\ yielded[k][1] = xml[i].start
                    /\ yielded[k][2] = xml[i].duration

\* The position of the first reading of a document that has one.
FirstReading(doc) ==
    CHOOSE i \in ReadingPositions(doc) :
        \A j \in ReadingPositions(doc) : i <= j

\* C21: once the first reading of a document has been read (a multiplier
\* being in scope), the first yielded reading is that reading itself: its own
\* start, its own duration and its scaled watt_hours, not an interpolation.
C21_FirstReadingUnchanged ==
    (ReadingPositions(xml) # {} /\ parse \in {"iter", "done"}) =>
        LET first == FirstReading(xml)
            m == MultiplierAt(xml, first)
        IN  (m # Unbound /\ it > first) =>
                /\ yielded # <<>>
                /\ origin[1] = Origin(first, FALSE)
                /\ yielded[1] =
                       <<xml[first].start, xml[first].duration,
                         Round(xml[first].value * Pow10(m[1])
                                   * xml[first].duration, 3600)>>

\* A document whose first reading does not start at 0 has been parsed to the
\* end and that reading came out first, scaled by the exponent 1.
C21_FirstYielded ==
    /\ parse = "done"
    /\ ReadingPositions(xml) # {}
    /\ xml[FirstReading(xml)].start = 1800
    /\ xml[FirstReading(xml)].duration = 3600
    /\ xml[FirstReading(xml)].value = -3
    /\ yielded # <<>>
    /\ yielded[1] = <<1800, 3600, -30>>

\* The readings that start two intervals after the reading before them.
GapReadings(doc) ==
    {j \in ReadingPositions(doc) :
        \E i \in ReadingPositions(doc) :
            /\ Consecutive(doc, i, j)
            /\ doc[j].start = doc[i].start + 2 * doc[i].duration}

\* A feed of one duration, with a multiplier in scope, whose readings are
\* contiguous but for a single missing interval; no start is repeated.
SingleGapFeed(doc) ==
    /\ ReadingPositions(doc) # {}
    /\ MultiplierAt(doc, FirstReading(doc)) # Unbound
    /\ \A i, j \in ReadingPositions(doc) : doc[i].duration = doc[j].duration
    /\ \A i, j \in ReadingPositions(doc) :
        Consecutive(doc, i, j) =>
            doc[j].start - doc[i].start
                \in {doc[i].duration, 2 * doc[i].duration}
    /\ Cardinality(GapReadings(doc)) = 1

\* C23: a feed with a single one-interval gap yields exactly one
\* interpolated reading, and every raw reading after the gap that is
\* contiguous with its raw predecessor is yielded with its own start and its
\* own watt_hours.
C23_OneSynthesizedPerGap ==
    (parse = "done" /\ SingleGapFeed(xml)) =>
        /\ Cardinality({k \in DOMAIN origin : origin[k].synthesized}) = 1
        /\ \A i, j \in ReadingPositions(xml) :
            (/\ Consecutive(xml, i, j)
             /\ xml[j].start = xml[i].start + xml[i].duration
             /\ \E g \in GapReadings(xml) : g < j) =>
                \E k \in DOMAIN yielded :
                    /\ origin[k] = Origin(j, FALSE)
                    /\ yielded[k] =
                           <<xml[j].start, xml[j].duration,
                             WattHours(xml[j].value, MultiplierAt(xml, j)[1],
                                       xml[j].duration)>>

(***************************************************************************)
(* Properties of PgeRegister                                               *)
(***************************************************************************)
RegisterOrder ==
    <<"get_token", "get_service_status", "get_sample_data",
      "get_third_party_id">>

\* C25: complete_testing takes its steps in the order get_token,
\* get_service_status, get_sample_data, get_third_party_id, goes on only
\* after a step that succeeded and stops at the first that failed; with the
\* token granted, the service online and the sample data answered 200 or
\* 202, it sets testing_completed and reaches the third-party-ID step.
C25_CompleteTesting ==
    op = "complete_testing" =>
        /\ Len(testing) <= 4
        /\ \A i \in DOMAIN testing : testing[i].step = RegisterOrder[i]
        /\ \A i \in DOMAIN testing :
            i < Len(testing) =>
                /\ i = 1 => testing[i].returned \in Tokens
                /\ i > 1 => testing[i].returned = "True"
        /\ (pc = "done" /\ ret \notin RegisterExceptions) =>
            \/ Len(testing) = 4
            \/ Len(testing) = 1 /\ testing[1].returned \notin Tokens
            \/ Len(testing) \in {2, 3}
                /\ testing[Len(testing)].returned = "False"
        /\ (/\ Len(testing) >= 3
            /\ testing[1].returned \in Tokens
            /\ testing[2].status_code = 200
            /\ testing[2].text = "<a><b>1</b></a>"
            /\ testing[3].status_code \in {200, 202}) =>
                /\ testing_completed
                /\ pc = "get_third_party_id" \/ Len(testing) = 4

====
